---- MODULE Spec2Model ----
(***************************************************************************)
(* Model of tutor_app.py, a Streamlit script.  Streamlit executes the      *)
(* whole script top to bottom once per user interaction (a "script run"),  *)
(* against the per-session dictionary st.session_state.  st.rerun() stops  *)
(* the current run and makes the runtime start another one at once.        *)
(*                                                                         *)
(* State:                                                                  *)
(*   session_state  the dictionary (a function from the keys present to    *)
(*                  their values)                                          *)
(*   page           what the last script run was triggered by, which       *)
(*                  external calls it made and what it put on the page     *)
(*   rerun          a script run requested by st.rerun() is outstanding    *)
(*   quiz_calls     number of quiz generation / grading calls that have    *)
(*                  returned since the last reset (capped by MaxQuizCalls) *)
(*                                                                         *)
(* A text is a sequence of lines, a line a sequence of tokens (strings);   *)
(* " " is the whitespace token, ":" "/" "," are punctuation tokens.        *)
(***************************************************************************)
EXTENDS Integers, Sequences, FiniteSets, TLC

VARIABLES session_state, page, rerun, quiz_calls

vars == <<session_state, page, rerun, quiz_calls>>

\* Cap on the quiz generation and grading calls that return in one session.
MaxQuizCalls == 3

\* Most lines an evaluation text of the parser inputs has after its feedback
\* and level lines.
MaxTrailingLines == 1

\* Most "Module: " segments a plan text of the parser inputs has.
MaxSegments == 3

(***************************************************************************)
(* Text helpers: Python's str.strip, str.split(sep)[-1], str.split(sep)[0] *)
(***************************************************************************)
SetMax(S) == CHOOSE x \in S : \A y \in S : y <= x

SetMin(S) == CHOOSE x \in S : \A y \in S : x <= y

\* line.strip(): drop the whitespace tokens at both ends of a line
StripLine(line) ==
  LET keep == {k \in 1..Len(line) : line[k] # " "}
  IN  IF keep = {} THEN <<>> ELSE SubSeq(line, SetMin(keep), SetMax(keep))

\* text.strip(): drop blank lines at both ends, and the whitespace at the
\* start of the first and the end of the last line that is left
StripText(text) ==
  LET keep == {k \in 1..Len(text) : StripLine(text[k]) # <<>>}
  IN  IF keep = {} THEN <<>>
      ELSE LET lo == SetMin(keep)
               hi == SetMax(keep)
               firstNb == SetMin({k \in 1..Len(text[lo]) : text[lo][k] # " "})
               lastNb  == SetMax({k \in 1..Len(text[hi]) : text[hi][k] # " "})
           IN  [k \in 1..(hi - lo + 1) |->
                 LET l == text[lo + k - 1]
                     a == IF k = 1 THEN firstNb ELSE 1
                     b == IF k = hi - lo + 1 THEN lastNb ELSE Len(l)
                 IN  SubSeq(l, a, b)]

\* text.split('\n'): the lines; the empty text splits into one empty line
SplitLines(text) == IF text = <<>> THEN << <<>> >> ELSE text

\* positions where the token sequence sep occurs in line
Occurrences(line, sep) ==
  {k \in 1..(Len(line) - Len(sep) + 1) : SubSeq(line, k, k + Len(sep) - 1) = sep}

\* line.split(sep)[-1]
SplitLast(line, sep) ==
  IF Occurrences(line, sep) = {} THEN line
  ELSE SubSeq(line, SetMax(Occurrences(line, sep)) + Len(sep), Len(line))

\* line.split(sep)[0]
SplitFirst(line, sep) ==
  IF Occurrences(line, sep) = {} THEN line
  ELSE SubSeq(line, 1, SetMin(Occurrences(line, sep)) - 1)

\* faulty variant of Truthy: every input counts as non-empty
Truthy_always(s) == TRUE

\* Python truthiness of a str / of a text: non-empty
Truthy(s) == s # ""

(***************************************************************************)
(* External collaborators.  A call either raises or returns a text; the    *)
(* code checks nothing about the text it gets back.  The returned texts    *)
(* are drawn from small sample sets.                                       *)
(***************************************************************************)
Raised == [ok |-> FALSE, text |-> <<>>]

Returned(t) == [ok |-> TRUE, text |-> t]

Outcomes(texts) == {Raised} \cup {Returned(t) : t \in texts}

Digit == <<"0", "1", "2", "3", "4", "5", "6", "7", "8", "9">>

\* f'{prefix}{i}'
Key(prefix, i) == prefix \o Digit[i + 1]

Topics == {"Photosynthesis", "Algebra"}

AssessmentTexts ==
  { <<>>,
    << <<"1.", " ", "easy">>, <<"2.", " ", "medium">>, <<"3.", " ", "hard">> >> }

AnswerInputs == {"", "I don't know"}

EvaluationTexts ==
  { << <<"Feedback", ":", " ", "good">>,
       <<"Knowledge Level", ":", " ", "Advanced">> >> }

\* Evaluation texts for the level extraction: a feedback line, a
\* "Knowledge Level" line or none, and up to MaxTrailingLines further lines.
LevelNames == {"Beginner", "Intermediate", "Advanced"}

LevelLine(level) == <<"Knowledge Level", ":", " ", level>>

TrailingLines ==
  { <<>>, <<"Note", ":", " ", "this is AI-generated">>, <<"Keep practising!">> }

RECURSIVE Trailers(_)
Trailers(n) ==
  IF n = 0 THEN {<<>>}
  ELSE Trailers(n - 1)
         \cup {Append(t, l) : t \in {x \in Trailers(n - 1) : Len(x) = n - 1},
                              l \in TrailingLines}

EvaluationInputs ==
  { << <<"Feedback", ":", " ", "good">> >> \o level \o trailer :
      level \in {<<>>} \cup {<<LevelLine(l)>> : l \in LevelNames},
      trailer \in Trailers(MaxTrailingLines) }

ModuleLines(n) ==
  << <<"Module", ":", " ", Key("Title ", n)>>,
     <<"Description", ":", " ", Key("About ", n)>>,
     <<"Search Query", ":", " ", Key("query ", n)>> >>

ModuleLinesNoDescription(n) ==
  << <<"Module", ":", " ", Key("Title ", n)>>,
     <<"Search Query", ":", " ", Key("query ", n)>> >>

PlanTexts ==
  { ModuleLines(1) \o ModuleLines(2) \o ModuleLines(3),
    << <<"Here is your plan">> >> \o ModuleLines(1)
        \o ModuleLinesNoDescription(2) \o ModuleLines(3),
    ModuleLines(1) \o ModuleLines(2) \o ModuleLines(3) \o ModuleLines(4) }

\* Plan texts for the module parsing: an introduction or none, then up to
\* MaxSegments "Module: " segments, each with or without its Description line.
Segment(n, described) ==
  IF described THEN ModuleLines(n) ELSE ModuleLinesNoDescription(n)

\* for each segment in turn, whether it has its Description line
RECURSIVE Shapes(_)
Shapes(n) ==
  IF n = 0 THEN {<<>>}
  ELSE Shapes(n - 1)
         \cup {Append(sh, d) : sh \in {x \in Shapes(n - 1) : Len(x) = n - 1},
                               d \in BOOLEAN}

RECURSIVE SegmentsFrom(_, _)
SegmentsFrom(shape, k) ==
  IF k > Len(shape) THEN <<>>
  ELSE Segment(k, shape[k]) \o SegmentsFrom(shape, k + 1)

Introductions == { <<>>, << <<"Here is your plan">> >> }

PlanOf(introduction, shape) == introduction \o SegmentsFrom(shape, 1)

PlanInputs ==
  {PlanOf(introduction, shape) :
     introduction \in Introductions, shape \in Shapes(MaxSegments)}

QuestionLines(n) ==
  << <<Key("", n) \o ".", " ", "Multiple Choice", ":", " ", Key("Question ", n)>>,
     <<"a)", " ", Key("first ", n)>>,
     <<"b)", " ", Key("second ", n)>> >>

\* the same with the options indented, as in the prompt's own example
IndentedQuestionLines(n) ==
  << <<Key("", n) \o ".", " ", "Multiple Choice", ":", " ", Key("Question ", n)>>,
     <<" ", "a)", " ", Key("first ", n)>>,
     <<" ", "b)", " ", Key("second ", n)>> >>

CorrectAnswersLine ==
  <<"Correct Answers", ":", " ", "b", ",", " ", "a", ",", " ", "b">>

\* three questions and the answers line, options flush left or indented
QuizTexts ==
  { QuestionLines(1) \o QuestionLines(2) \o QuestionLines(3)
      \o << <<>>, CorrectAnswersLine >>,
    IndentedQuestionLines(1) \o IndentedQuestionLines(2) \o IndentedQuestionLines(3)
      \o << <<>>, CorrectAnswersLine >> }

ReportedScores == {"1", "4"}

GradingTexts ==
  { << <<"Feedback", ":", " ", "see above">>, <<"Score", ":", " ", n, "/", "3">> >>
      : n \in ReportedScores }
  \cup { << <<"Feedback", ":", " ", "see above">>, <<"Well done!">> >> }

\* search_tool.invoke(query): raises, or returns results (only displayed)
search_tool_invoke(query) == Outcomes({<<>>})

\* assessment_chain.invoke({"topic": topic})
generate_initial_assessment(topic) == Outcomes(AssessmentTexts)

\* evaluation_chain.invoke({"questions": questions, "answers": answers})
evaluate_answers(questions, answers) == Outcomes(EvaluationTexts)

\* plan_chain.invoke({"topic": topic, "knowledge_level": knowledge_level})
generate_learning_plan(topic, knowledge_level) == Outcomes(PlanTexts)

\* quiz_chain.invoke({"module_title": ..., "module_description": ...})
generate_module_quiz(module_title, module_description) == Outcomes(QuizTexts)

\* grader_chain.invoke({"quiz_questions": ..., "user_mc_answers": ..., ...})
evaluate_quiz_answers(quiz_questions, user_mc_answers, correct_mc_answers) ==
  Outcomes(GradingTexts)

(***************************************************************************)
(* Parsing of the model's texts                                            *)
(***************************************************************************)
StartsWith(line, prefix) ==
  Len(line) >= Len(prefix) /\ SubSeq(line, 1, Len(prefix)) = prefix

\* the n-th smallest element of a set of integers
Nth(S, n) == CHOOSE x \in S : Cardinality({y \in S : y < x}) = n - 1

\* last_line = evaluation.strip().split('\n')[-1]
\* knowledge_level = last_line.split(':')[-1].strip()
knowledge_level(evaluation) ==
  LET lines == SplitLines(StripText(evaluation))
      last_line == lines[Len(lines)]
  IN  StripLine(SplitLast(last_line, <<":">>))

ModuleMarker == <<"Module", ":", " ">>

DescriptionMarker == <<"Description", ":", " ">>

QueryMarker == <<"Search Query", ":", " ">>

\* modules = plan.strip().split('Module: ')[1:]
\* (the delimiter is looked for at the start of a line, where the sample plans
\* have it).  Each module_text is a sequence of [tokens, nl]: a line and
\* whether a line break follows it inside the text.
ParseModules(plan) ==
  LET text == StripText(plan)
      starts == {k \in 1..Len(text) : StartsWith(text[k], ModuleMarker)}
      n == Cardinality(starts)
  IN  [i \in 1..n |->
        LET s == Nth(starts, i)
            e == IF i < n THEN Nth(starts, i + 1) - 1 ELSE Len(text)
        IN  [k \in 1..(e - s + 1) |->
              [tokens |-> IF k = 1 THEN SubSeq(text[s], Len(ModuleMarker) + 1, Len(text[s]))
                                   ELSE text[s + k - 1],
               nl |-> s + k - 1 < Len(text)]]]

\* the lines of module_text in which `marker` occurs (regex search for a literal)
LinesWith(module_text, marker) ==
  {k \in 1..Len(module_text) : Occurrences(module_text[k].tokens, marker) # {}}

\* the rest of the line after the first occurrence of marker
After(line, marker) ==
  SubSeq(line, SetMin(Occurrences(line, marker)) + Len(marker), Len(line))

\* re.search(r"(.*?)\n", module_text)
title_match(module_text) == \E k \in 1..Len(module_text) : module_text[k].nl

\* re.search(r"Description: (.*?)\n", module_text)
desc_match(module_text) ==
  \E k \in LinesWith(module_text, DescriptionMarker) : module_text[k].nl

\* re.search(r"Search Query: (.*)", module_text, re.DOTALL)
query_match(module_text) == LinesWith(module_text, QueryMarker) # {}

\* title_match.group(1).strip()
ModuleTitle(module_text) ==
  StripLine(module_text[SetMin({k \in 1..Len(module_text) : module_text[k].nl})].tokens)

\* desc_match.group(1).strip()
ModuleDescription(module_text) ==
  LET k == SetMin({j \in LinesWith(module_text, DescriptionMarker) : module_text[j].nl})
  IN  StripLine(After(module_text[k].tokens, DescriptionMarker))

\* query_match.group(1).strip(): to the end of the module text
ModuleQuery(module_text) ==
  LET k == SetMin(LinesWith(module_text, QueryMarker))
  IN  StripText(<<After(module_text[k].tokens, QueryMarker)>>
                \o [j \in 1..(Len(module_text) - k) |-> module_text[k + j].tokens])

\* if title_match and desc_match and query_match
ModuleWellFormed(module_text) ==
  title_match(module_text) /\ desc_match(module_text) /\ query_match(module_text)

CorrectAnswersMarker == <<"Correct Answers", ":">>

\* quiz_parts = quiz_text.split("Correct Answers:")
\* quiz_questions_text = quiz_parts[0].strip()
quiz_questions_text(quiz_text) ==
  LET hits == {k \in 1..Len(quiz_text) :
                 Occurrences(quiz_text[k], CorrectAnswersMarker) # {}}
  IN  IF hits = {} THEN StripText(quiz_text)
      ELSE LET k == SetMin(hits)
           IN  StripText(SubSeq(quiz_text, 1, k - 1)
                         \o <<SplitFirst(quiz_text[k], CorrectAnswersMarker)>>)

\* correct_answers_str = quiz_parts[1].strip() if len(quiz_parts) > 1 else ""
\* (the sample quizzes keep the answers on the marker's line)
correct_answers_str(quiz_text) ==
  LET hits == {k \in 1..Len(quiz_text) :
                 Occurrences(quiz_text[k], CorrectAnswersMarker) # {}}
  IN  IF hits = {} THEN <<>>
      ELSE StripLine(After(quiz_text[SetMin(hits)], CorrectAnswersMarker))

\* str.split(','), as the sequence of the pieces
RECURSIVE SplitCommas(_)
SplitCommas(line) ==
  IF Occurrences(line, <<",">>) = {} THEN <<line>>
  ELSE <<SplitFirst(line, <<",">>)>>
       \o SplitCommas(After(line, <<",">>))

\* correct_answers = [ans.strip() for ans in correct_answers_str.split(',')]
correct_answers(quiz_text) ==
  LET pieces == SplitCommas(correct_answers_str(quiz_text))
  IN  [k \in 1..Len(pieces) |-> StripLine(pieces[k])]

\* a line that starts with \d\.\sMultiple Choice:
IsQuestionHeader(line) ==
  /\ Len(line) >= 4
  /\ \E d \in 1..Len(Digit) : line[1] = Digit[d] \o "."
  /\ line[2] = " "
  /\ line[3] = "Multiple Choice"
  /\ line[4] = ":"

\* individual_questions = re.split(r'\n\d\.\sMultiple Choice:', quiz_questions_text)[1:]
\* The pattern starts with a line break: a header on the first line of the
\* stripped text is not a match, and [1:] drops the text before the first match.
individual_questions(questions_text) ==
  LET heads == {k \in 2..Len(questions_text) : IsQuestionHeader(questions_text[k])}
      n == Cardinality(heads)
  IN  [q \in 1..n |->
        LET s == Nth(heads, q)
            e == IF q < n THEN Nth(heads, q + 1) - 1 ELSE Len(questions_text)
        IN  [k \in 1..(e - s + 1) |->
              IF k = 1 THEN SubSeq(questions_text[s], 5, Len(questions_text[s]))
              ELSE questions_text[s + k - 1]]]

OptionLabels == {"a)", "b)", "c)", "d)"}

\* a line matching ^[a-d]\) (.*)
IsOptionLine(line) == Len(line) >= 2 /\ line[1] \in OptionLabels /\ line[2] = " "

\* options = re.findall(r'^[a-d]\) (.*)', q_text, re.MULTILINE)
options(q_text) ==
  LET hits == {k \in 1..Len(q_text) : IsOptionLine(q_text[k])}
  IN  [o \in 1..Cardinality(hits) |->
        LET l == q_text[Nth(hits, o)] IN SubSeq(l, 3, Len(l))]

\* st.radio(..., index=None): nothing selected, or one of the options
NoChoice == [selected |-> FALSE, text |-> <<>>]

Choices(opts) ==
  {NoChoice} \cup {[selected |-> TRUE, text |-> opts[o]] : o \in 1..Len(opts)}

\* the questions that get a radio: if options: ... user_answers.append(user_choice)
AnswerableQuestions(quiz_text) ==
  LET qs == individual_questions(quiz_questions_text(quiz_text))
  IN  SelectSeq(qs, LAMBDA q : Len(options(q)) > 0)

RECURSIVE AnswerLists(_, _)
AnswerLists(qs, n) ==
  IF n = 0 THEN {<<>>}
  ELSE {Append(ua, c) : ua \in AnswerLists(qs, n - 1), c \in Choices(options(qs[n]))}

\* every list user_answers the form of this quiz can submit
UserAnswers(quiz_text) ==
  AnswerLists(AnswerableQuestions(quiz_text), Len(AnswerableQuestions(quiz_text)))

\* int(s): s.strip() must be an integer literal (one-digit numerals here)
IntParses(tokens) ==
  /\ Len(StripLine(tokens)) = 1
  /\ \E d \in 1..Len(Digit) : Digit[d] = StripLine(tokens)[1]

IntOf(tokens) == (CHOOSE d \in 1..Len(Digit) : Digit[d] = StripLine(tokens)[1]) - 1

\* score_line = evaluation.strip().split('\n')[-1]
\* score_parts = score_line.split(': ')[-1].split('/')
score_part0(evaluation) ==
  LET lines == SplitLines(StripText(evaluation))
      score_line == lines[Len(lines)]
  IN  SplitFirst(SplitLast(score_line, <<":", " ">>), <<"/">>)

\* what the loop body reads of one module_text: whether the three patterns
\* match and, when they do, the stripped groups
ParsedModule(module_text) ==
  IF ModuleWellFormed(module_text)
  THEN [well_formed |-> TRUE, title |-> ModuleTitle(module_text),
        description |-> ModuleDescription(module_text),
        query |-> ModuleQuery(module_text)]
  ELSE [well_formed |-> FALSE, title |-> <<>>, description |-> <<>>, query |-> <<>>]

\* The parsers applied to the sample texts, each text parsed once.
ModulesOf ==
  [p \in PlanTexts \cup PlanInputs |->
    [i \in 1..Len(ParseModules(p)) |-> ParsedModule(ParseModules(p)[i])]]

QuizOf ==
  [q \in QuizTexts |->
    [questions_text |-> quiz_questions_text(q),
     correct_answers |-> correct_answers(q),
     user_answers |-> UserAnswers(q)]]

ScoreOf ==
  [g \in GradingTexts |->
    [parses |-> IntParses(score_part0(g)),
     value |-> IF IntParses(score_part0(g)) THEN IntOf(score_part0(g)) ELSE 0]]

LevelOf == [e \in EvaluationTexts \cup EvaluationInputs |-> knowledge_level(e)]

(***************************************************************************)
(* st.session_state and the page of a script run                           *)
(***************************************************************************)
\* st.session_state[k] = v
Put(ss, k, v) == [x \in DOMAIN ss \cup {k} |-> IF x = k THEN v ELSE ss[x]]

\* del st.session_state[k] for every k in keys
Remove(ss, keys) == [k \in DOMAIN ss \ keys |-> ss[k]]

\* total of a quiz, as cached with every score
QuizTotal == 3

\* range(3) of the total-score loop ("Assuming 3 modules")
AssumedModules == 3

QuizKey(i) == Key("quiz_for_module_", i)

FeedbackKey(i) == Key("quiz_feedback_for_module_", i)

ScoreKey(i) == Key("quiz_score_for_module_", i)

\* a script run's trigger: the widget the user acted on, with its input
Trigger(kind, module, text_input, user_answers) ==
  [kind |-> kind, module |-> module, text_input |-> text_input,
   user_answers |-> user_answers]

NoTrigger == Trigger("rerun", -1, "", <<>>)

\* one call of an external collaborator: its arguments and its outcome
Call(fn, args, out) == [fn |-> fn, args |-> args, out |-> out]

\* A script run: the session it works on, its trigger, the external calls it
\* made, the messages and widgets it put on the page, whether it asked for a
\* rerun, and whether it has ended (halted) by an exception or st.rerun().
BlankRun(ss, trig) ==
  [ss |-> ss, trigger |-> trig, calls |-> <<>>, warning |-> FALSE,
   error |-> "none", deleted |-> {}, metric |-> <<>>, rendered |-> {},
   buttons |-> {}, forms |-> {}, rerun |-> FALSE, halted |-> FALSE]

\* an exception leaves the script: caught by the plan_display try block
\* ("caught", st.error) or not ("uncaught", shown by the runtime)
Raise(r, how) == [r EXCEPT !.error = how, !.halted = TRUE]

\* st.rerun()
RerunNow(r) == [r EXCEPT !.rerun = TRUE, !.halted = TRUE]

Logged(r, c) == [r EXCEPT !.calls = Append(@, c)]

\* A step of the script yields the set of runs it can end in, one for each
\* outcome of the external calls it makes.

(***************************************************************************)
(* Sidebar: "Start a New Topic"                                            *)
(***************************************************************************)
\* faulty variant of ClearSession: nothing is deleted
ClearSession_nothing(ss) == ss

\* faulty variant of ClearSession: deletes the fixed fields only, not the
\* per-module keys
ClearSession_fixed_fields(ss) == Remove(ss, {"topic", "questions", "evaluation", "plan"})

\* for key in st.session_state.keys(): del st.session_state[key]
ClearSession(ss) == Remove(ss, DOMAIN ss)

\* the button handler
start_new_topic(ss, trig) ==
  { RerunNow([BlankRun(ss, trig) EXCEPT
                !.deleted = DOMAIN ss,
                !.ss = Put(ClearSession(ss), "stage", "topic_submission")]) }

\* if 'stage' not in st.session_state: st.session_state.stage = 'topic_submission'
InitStage(ss) == IF "stage" \in DOMAIN ss THEN ss ELSE Put(ss, "stage", "topic_submission")

(***************************************************************************)
(* Stage 1: topic_submission                                               *)
(***************************************************************************)
\* faulty variant of start_assessment: goes on whatever the outcome of the call
start_assessment_ignoring_failure(ss, trig, out) ==
  RerunNow([Logged(BlankRun(ss, trig),
                   Call("generate_initial_assessment", <<trig.text_input>>, out))
              EXCEPT !.ss = Put(Put(Put(ss, "topic", trig.text_input),
                                    "questions", out.text),
                                "stage", "assessment_answering")])

\* the non-empty branch, for one outcome of the assessment call
start_assessment(ss, trig, out) ==
  LET r == Logged([BlankRun(ss, trig) EXCEPT !.ss = Put(ss, "topic", trig.text_input)],
                  Call("generate_initial_assessment", <<trig.text_input>>, out))
  IN  IF ~out.ok THEN Raise(r, "uncaught")
      ELSE RerunNow([r EXCEPT !.ss = Put(Put(r.ss, "questions", out.text),
                                         "stage", "assessment_answering")])

\* if st.button("Start Assessment"): if topic_input: ... else: st.warning(...)
topic_submission(ss, trig) ==
  IF trig.kind # "start_assessment" THEN {BlankRun(ss, trig)}
  ELSE IF ~Truthy(trig.text_input) THEN {[BlankRun(ss, trig) EXCEPT !.warning = TRUE]}
  ELSE {start_assessment(ss, trig, out) : out \in generate_initial_assessment(trig.text_input)}

(***************************************************************************)
(* Stage 2: assessment_answering                                           *)
(***************************************************************************)
\* faulty variant of submit_answers: evaluates the answers without the cached
\* questions
submit_answers_without_questions(ss, trig, out) ==
  LET r == Logged(BlankRun(ss, trig),
                  Call("evaluate_answers", <<<<>>, trig.text_input>>, out))
  IN  IF ~out.ok THEN Raise(r, "uncaught")
      ELSE RerunNow([r EXCEPT !.ss = Put(Put(ss, "evaluation", out.text),
                                         "stage", "plan_display")])

\* faulty variant of submit_answers: the evaluation sends the session back to
\* the topic stage
submit_answers_restarting(ss, trig, out) ==
  LET r == Logged(BlankRun(ss, trig),
                  Call("evaluate_answers", <<ss["questions"], trig.text_input>>, out))
  IN  IF ~out.ok THEN Raise(r, "uncaught")
      ELSE RerunNow([r EXCEPT !.ss = Put(Put(ss, "evaluation", out.text),
                                         "stage", "topic_submission")])

\* the non-empty branch, for one outcome of the evaluation call
submit_answers(ss, trig, out) ==
  LET r == Logged(BlankRun(ss, trig),
                  Call("evaluate_answers", <<ss["questions"], trig.text_input>>, out))
  IN  IF ~out.ok THEN Raise(r, "uncaught")
      ELSE RerunNow([r EXCEPT !.ss = Put(Put(ss, "evaluation", out.text),
                                         "stage", "plan_display")])

\* if st.button("Submit Answers"): if user_answers: ... else: st.warning(...)
assessment_answering(ss, trig) ==
  IF trig.kind # "submit_answers" THEN {BlankRun(ss, trig)}
  ELSE IF ~Truthy(trig.text_input) THEN {[BlankRun(ss, trig) EXCEPT !.warning = TRUE]}
  ELSE {submit_answers(ss, trig, out) :
          out \in evaluate_answers(ss["questions"], trig.text_input)}

(***************************************************************************)
(* Stage 3: plan_display                                                   *)
(***************************************************************************)
\* total_score / total_possible over i in range(3), from module i on
RECURSIVE TotalFrom(_, _)
TotalFrom(ss, i) ==
  IF i >= AssumedModules THEN <<0, 0>>
  ELSE IF ScoreKey(i) \in DOMAIN ss
       THEN <<ss[ScoreKey(i)][1] + TotalFrom(ss, i + 1)[1],
              ss[ScoreKey(i)][2] + TotalFrom(ss, i + 1)[2]>>
       ELSE TotalFrom(ss, i + 1)

\* if total_possible > 0: st.metric(...): the pair shown, <<>> when none is
TotalScoreMetric(ss) ==
  IF TotalFrom(ss, 0)[2] > 0 THEN TotalFrom(ss, 0) ELSE <<>>

\* faulty variant of PlanCached: the cache is never consulted
PlanCached_never(ss) == FALSE

\* if 'plan' not in st.session_state
PlanCached(ss) == "plan" \in DOMAIN ss

\* st.session_state.plan = generate_learning_plan(...), for one outcome
plan_generated(r, level, out) ==
  IF ~out.ok
  THEN Raise(Logged(r, Call("generate_learning_plan", <<r.ss["topic"], level>>, out)),
             "caught")
  ELSE [Logged(r, Call("generate_learning_plan", <<r.ss["topic"], level>>, out))
          EXCEPT !.ss = Put(r.ss, "plan", out.text)]

\* faulty variant of quiz_generated: a generated quiz comes with a score
quiz_generated_with_score(r, i, module, out) ==
  IF ~out.ok
  THEN Raise(Logged(r, Call("generate_module_quiz",
                            <<module.title, module.description>>, out)), "caught")
  ELSE [Logged(r, Call("generate_module_quiz",
                       <<module.title, module.description>>, out))
          EXCEPT !.ss = Put(Put(r.ss, QuizKey(i), out.text), ScoreKey(i), <<0, 3>>)]

\* generate_module_quiz and st.session_state[f'quiz_for_module_{i}'] = quiz_text,
\* for one outcome
quiz_generated(r, i, module, out) ==
  IF ~out.ok
  THEN Raise(Logged(r, Call("generate_module_quiz",
                            <<module.title, module.description>>, out)), "caught")
  ELSE [Logged(r, Call("generate_module_quiz",
                       <<module.title, module.description>>, out))
          EXCEPT !.ss = Put(r.ss, QuizKey(i), out.text)]

\* if st.button(f"Quiz me on Module {i+1}", key=f"quiz_btn_{i}"): ...
quiz_button(r, i, module) ==
  IF r.trigger.kind = "quiz_me" /\ r.trigger.module = i
  THEN {quiz_generated(r, i, module, out) :
          out \in generate_module_quiz(module.title, module.description)}
  ELSE {r}

\* the grading call of a submitted form
GradingCall(r, i, out) ==
  Call("evaluate_quiz_answers",
       <<QuizOf[r.ss[QuizKey(i)]].questions_text, r.trigger.user_answers,
         QuizOf[r.ss[QuizKey(i)]].correct_answers>>, out)

\* faulty variant of quiz_graded: the grade is cached under the first module's
\* keys
quiz_graded_first_module(r, i, out) ==
  IF ~out.ok THEN Raise(Logged(r, GradingCall(r, i, out)), "caught")
  ELSE IF ~ScoreOf[out.text].parses
       THEN Raise([Logged(r, GradingCall(r, i, out))
                     EXCEPT !.ss = Put(r.ss, FeedbackKey(0), out.text)], "caught")
       ELSE RerunNow([Logged(r, GradingCall(r, i, out))
                        EXCEPT !.ss = Put(Put(r.ss, FeedbackKey(0), out.text),
                                          ScoreKey(0),
                                          <<ScoreOf[out.text].value, QuizTotal>>)])

\* if submitted: grade, cache the feedback, parse and cache the score, rerun;
\* for one outcome of the grading call
quiz_graded(r, i, out) ==
  IF ~out.ok THEN Raise(Logged(r, GradingCall(r, i, out)), "caught")
  ELSE IF ~ScoreOf[out.text].parses
       THEN Raise([Logged(r, GradingCall(r, i, out))
                     EXCEPT !.ss = Put(r.ss, FeedbackKey(i), out.text)], "caught")
       ELSE RerunNow([Logged(r, GradingCall(r, i, out))
                        EXCEPT !.ss = Put(Put(r.ss, FeedbackKey(i), out.text),
                                          ScoreKey(i),
                                          <<ScoreOf[out.text].value, QuizTotal>>)])

\* if f'quiz_for_module_{i}' in st.session_state: the form and its submission
quiz_form(r, i) ==
  IF r.halted \/ QuizKey(i) \notin DOMAIN r.ss THEN {r}
  ELSE IF r.trigger.kind = "submit_quiz" /\ r.trigger.module = i
       THEN {quiz_graded([r EXCEPT !.forms = @ \cup {i}], i, out) :
               out \in evaluate_quiz_answers(
                         QuizOf[r.ss[QuizKey(i)]].questions_text,
                         r.trigger.user_answers,
                         QuizOf[r.ss[QuizKey(i)]].correct_answers)}
       ELSE {[r EXCEPT !.forms = @ \cup {i}]}

\* the container of module i after its header, for one outcome of the lookup
module_container(r, i, module, out) ==
  IF ~out.ok
  THEN {Raise(Logged([r EXCEPT !.rendered = @ \cup {i}],
                     Call("search_tool.invoke", <<module.query>>, out)), "caught")}
  ELSE UNION {quiz_form(r2, i) :
                r2 \in quiz_button(Logged([r EXCEPT !.rendered = @ \cup {i},
                                                     !.buttons = @ \cup {i}],
                                          Call("search_tool.invoke", <<module.query>>, out)),
                                   i, module)}

\* faulty variant of render_module: the three matches are not required
render_module_unconditional(r, i, module) ==
  IF r.halted THEN {r}
  ELSE UNION {module_container(r, i, module, out) :
                out \in search_tool_invoke(module.query)}

\* one pass of the body of `for i, module_text in enumerate(modules)`
render_module(r, i, module) ==
  IF r.halted \/ ~module.well_formed THEN {r}
  ELSE UNION {module_container(r, i, module, out) :
                out \in search_tool_invoke(module.query)}

\* for i, module_text in enumerate(modules): ..., from index i on; a run that
\* an exception or a rerun has ended stays as it is
RECURSIVE render_modules(_, _, _)
render_modules(runs, i, modules) ==
  IF i >= Len(modules) THEN runs
  ELSE render_modules(UNION {render_module(r, i, modules[i + 1]) : r \in runs},
                      i + 1, modules)

\* the runs after the plan step: the cached plan, or a generated one
plan_step(ss, trig) ==
  IF PlanCached(ss) THEN {[BlankRun(ss, trig) EXCEPT !.metric = TotalScoreMetric(ss)]}
  ELSE {plan_generated([BlankRun(ss, trig) EXCEPT !.metric = TotalScoreMetric(ss)],
                       LevelOf[ss["evaluation"]], out) :
          out \in generate_learning_plan(ss["topic"], LevelOf[ss["evaluation"]])}

\* the try block of the plan_display stage
plan_display(ss, trig) ==
  UNION {IF r.halted THEN {r} ELSE render_modules({r}, 0, ModulesOf[r.ss["plan"]]) :
           r \in plan_step(ss, trig)}

\* the whole script, top to bottom, for one trigger
script(ss, trig) ==
  IF trig.kind = "reset" THEN start_new_topic(ss, trig)
  ELSE IF InitStage(ss)["stage"] = "topic_submission"
       THEN topic_submission(InitStage(ss), trig)
       ELSE IF InitStage(ss)["stage"] = "assessment_answering"
            THEN assessment_answering(InitStage(ss), trig)
            ELSE plan_display(InitStage(ss), trig)

(***************************************************************************)
(* The state machine: one action per user interaction, each a script run   *)
(***************************************************************************)
PageOf(r) ==
  [trigger |-> r.trigger, calls |-> r.calls, warning |-> r.warning,
   error |-> r.error, deleted |-> r.deleted, metric |-> r.metric,
   rendered |-> r.rendered, buttons |-> r.buttons, forms |-> r.forms]

QuizCallsIn(calls) ==
  Cardinality({k \in 1..Len(calls) :
                 calls[k].fn \in {"generate_module_quiz", "evaluate_quiz_answers"} /\ calls[k].out.ok})

\* the script runs to its end for the trigger, with some outcome of its calls
Run(trig) ==
  \E r \in script(session_state, trig) :
    /\ session_state' = r.ss
    /\ page' = PageOf(r)
    /\ rerun' = r.rerun
    /\ quiz_calls' = IF trig.kind = "reset" THEN 0
                     ELSE quiz_calls + QuizCallsIn(r.calls)

\* the session's first script run
Init ==
  /\ session_state = InitStage(<<>>)
  /\ page = PageOf(BlankRun(InitStage(<<>>), NoTrigger))
  /\ rerun = FALSE
  /\ quiz_calls = 0

\* the user presses "Start a New Topic"
StartNewTopic ==
  /\ ~rerun
  /\ Run(Trigger("reset", -1, "", <<>>))

\* the user presses "Start Assessment" with topic_input in the text field
StartAssessment ==
  /\ ~rerun
  /\ session_state["stage"] = "topic_submission"
  /\ \E topic_input \in Topics \cup {""} :
       Run(Trigger("start_assessment", -1, topic_input, <<>>))

\* the user presses "Submit Answers" with user_answers in the text area
SubmitAnswers ==
  /\ ~rerun
  /\ session_state["stage"] = "assessment_answering"
  /\ \E user_answers \in AnswerInputs :
       Run(Trigger("submit_answers", -1, user_answers, <<>>))

\* a script run without a widget trigger: the one st.rerun() asked for, or a
\* rerun of the page by the user
RunScript == Run(NoTrigger)

\* the user presses "Quiz me on Module i+1"
QuizMe ==
  /\ ~rerun
  /\ quiz_calls < MaxQuizCalls
  /\ \E i \in page.buttons : Run(Trigger("quiz_me", i, "", <<>>))

\* the user presses "Submit Quiz" in the form of module i
SubmitQuiz ==
  /\ ~rerun
  /\ quiz_calls < MaxQuizCalls
  /\ \E i \in page.forms :
       \E user_answers \in QuizOf[session_state[QuizKey(i)]].user_answers :
         Run(Trigger("submit_quiz", i, "", user_answers))

Next ==
  \/ StartNewTopic
  \/ StartAssessment
  \/ SubmitAnswers
  \/ RunScript
  \/ QuizMe
  \/ SubmitQuiz

Spec == Init /\ [][Next]_vars

(***************************************************************************)
(* The parsers of plan_display on their own: the session as it stands when *)
(* a render of plan_display is due, with the evaluation (and the cached    *)
(* plan, when there is one) drawn from the parser inputs; the render       *)
(* applies the parsers.                                                    *)
(***************************************************************************)
\* the session the "Submit Answers" run leaves when the evaluation call
\* returned `evaluation`
EvaluatedSession(topic, questions, evaluation) ==
  submit_answers([stage |-> "assessment_answering", topic |-> topic,
                  questions |-> questions],
                 Trigger("submit_answers", -1, "I don't know", <<>>),
                 Returned(evaluation)).ss

\* the sessions at the start of a render: no plan yet, or a plan cached
ParserSessions ==
  {EvaluatedSession(t, q, e) :
     t \in Topics, q \in AssessmentTexts, e \in EvaluationInputs}
  \cup {Put(EvaluatedSession(t, q, e), "plan", p) :
          t \in Topics, q \in AssessmentTexts, e \in EvaluationTexts, p \in PlanInputs}

ParserInit ==
  /\ session_state \in ParserSessions
  /\ page = PageOf(BlankRun(session_state, NoTrigger))
  /\ rerun = TRUE
  /\ quiz_calls = 0

\* the render
ParserNext == RunScript

ParserSpec == ParserInit /\ [][ParserNext]_vars

(***************************************************************************)
(* Properties                                                              *)
(***************************************************************************)
\* a field of the session holding a given value
Has(k, v) == k \in DOMAIN session_state /\ session_state[k] = v

\* the indices a module key can carry
ModuleIndex == 0..(Len(Digit) - 1)

\* the calls of a page made to fn
CallsTo(p, fn) == {k \in 1..Len(p.calls) : p.calls[k].fn = fn}

\* C1: once the plan is cached, a script run other than the reset (a render,
\* a quiz trigger or a quiz submission) keeps the cached plan text and makes
\* no call to plan generation: the plan is generated at most once between
\* two resets.
C1_PlanGeneratedOnce ==
  [][("plan" \in DOMAIN session_state /\ page'.trigger.kind # "reset")
       => /\ "plan" \in DOMAIN session_state'
          /\ session_state'["plan"] = session_state["plan"]
          /\ CallsTo(page', "generate_learning_plan") = {}]_vars

\* a quiz has been generated and graded under a cached plan
C1_Witness ==
  /\ "plan" \in DOMAIN session_state
  /\ page.trigger.kind = "submit_quiz"
  /\ CallsTo(page, "evaluate_quiz_answers") # {}
  /\ ScoreKey(page.trigger.module) \in DOMAIN session_state

\* C2: the run of the "Start a New Topic" reset, from any session, ends with
\* stage = topic_submission and nothing else in the session: no topic,
\* questions, evaluation, plan, nor any per-module quiz, feedback or score.
C2_ResetClearsSession ==
  page.trigger.kind = "reset"
    => /\ DOMAIN session_state = {"stage"}
       /\ session_state["stage"] = "topic_submission"
       /\ rerun

\* a reset of a session that held a plan, a quiz, a feedback and a score
C2_Witness ==
  /\ page.trigger.kind = "reset"
  /\ {"topic", "questions", "evaluation", "plan"} \subseteq page.deleted
  /\ \E i \in ModuleIndex :
       {QuizKey(i), FeedbackKey(i), ScoreKey(i)} \subseteq page.deleted

\* a non-empty topic has been submitted
TopicSubmitted ==
  page.trigger.kind = "start_assessment" /\ page.trigger.text_input # ""

\* C3 as stated: submitting a non-empty topic T moves the session to
\* assessment_answering with topic = T and a non-empty assessment text.
C3_AsStated ==
  TopicSubmitted
    => /\ Has("stage", "assessment_answering")
       /\ Has("topic", page.trigger.text_input)
       /\ "questions" \in DOMAIN session_state
       /\ session_state["questions"] # <<>>

\* C3 amended: submitting a non-empty topic T stores topic = T and calls the
\* assessment generation once, for T.  When the call returns, its text is
\* stored as it is, empty or not, and the session moves to
\* assessment_answering; when it raises, the exception leaves the script, no
\* questions are stored and the stage stays topic_submission.
C3_TopicSubmission ==
  TopicSubmitted
    => /\ Len(page.calls) = 1
       /\ page.calls[1].fn = "generate_initial_assessment"
       /\ page.calls[1].args = <<page.trigger.text_input>>
       /\ Has("topic", page.trigger.text_input)
       /\ IF page.calls[1].out.ok
          THEN /\ Has("questions", page.calls[1].out.text)
               /\ Has("stage", "assessment_answering")
               /\ rerun
          ELSE /\ "questions" \notin DOMAIN session_state
               /\ Has("stage", "topic_submission")
               /\ page.error = "uncaught"
               /\ ~rerun

\* a topic was submitted, the call returned and the session moved on
C3_Witness ==
  /\ TopicSubmitted
  /\ page.calls[1].out.ok
  /\ Has("topic", "Algebra")
  /\ Has("stage", "assessment_answering")

\* non-empty answers have been submitted
AnswersSubmitted ==
  page.trigger.kind = "submit_answers" /\ page.trigger.text_input # ""

\* C4 as stated: submitting non-empty answers stores the evaluation text
\* produced from the cached questions and those answers, and moves the session
\* to plan_display.
C4_AsStated ==
  AnswersSubmitted
    => /\ Has("stage", "plan_display")
       /\ "evaluation" \in DOMAIN session_state
       /\ Len(page.calls) = 1
       /\ page.calls[1].out.ok
       /\ page.calls[1].args = <<session_state["questions"], page.trigger.text_input>>
       /\ session_state["evaluation"] = page.calls[1].out.text

\* C4 amended: submitting non-empty answers calls the evaluation once, with the
\* cached questions and those answers.  When the call returns, its text is
\* stored as the evaluation and the session moves to plan_display; when it
\* raises, the exception leaves the script, no evaluation is stored and the
\* stage stays assessment_answering.
C4_AnswersSubmission ==
  AnswersSubmitted
    => /\ Len(page.calls) = 1
       /\ page.calls[1].fn = "evaluate_answers"
       /\ "questions" \in DOMAIN session_state
       /\ page.calls[1].args = <<session_state["questions"], page.trigger.text_input>>
       /\ IF page.calls[1].out.ok
          THEN /\ Has("evaluation", page.calls[1].out.text)
               /\ Has("stage", "plan_display")
               /\ rerun
          ELSE /\ "evaluation" \notin DOMAIN session_state
               /\ Has("stage", "assessment_answering")
               /\ page.error = "uncaught"
               /\ ~rerun

\* answers were submitted, the call returned and the session moved on
C4_Witness ==
  /\ AnswersSubmitted
  /\ page.calls[1].out.ok
  /\ Has("stage", "plan_display")
  /\ "evaluation" \in DOMAIN session_state

\* C5: submitting an empty topic, or empty answers, changes no field of the
\* session (the stage included), makes no external call and shows only the
\* validation warning.
C5_EmptySubmission ==
  [][(page'.trigger.kind \in {"start_assessment", "submit_answers"}
        /\ page'.trigger.text_input = "")
       => /\ session_state' = session_state
          /\ page'.calls = <<>>
          /\ page'.warning
          /\ page'.error = "none"
          /\ ~rerun']_vars

\* empty answers were submitted to an assessment and the warning is shown
C5_Witness ==
  /\ page.trigger.kind = "submit_answers"
  /\ page.trigger.text_input = ""
  /\ page.warning
  /\ Has("stage", "assessment_answering")

\* "Quiz me" on module i has stored a generated quiz in this run
QuizRegenerated(i) ==
  /\ page.trigger.kind = "quiz_me"
  /\ page.trigger.module = i
  /\ \E k \in CallsTo(page, "generate_module_quiz") : page.calls[k].out.ok

\* C6: after "quiz me" has stored a quiz for module i, the module has no
\* cached feedback and no cached score: a re-trigger removes the prior grade.
C6_RetriggerRemovesGrade ==
  \A i \in ModuleIndex :
    QuizRegenerated(i)
      => /\ FeedbackKey(i) \notin DOMAIN session_state
         /\ ScoreKey(i) \notin DOMAIN session_state

\* a run that ended in the failure of an external call and in which no
\* generation, evaluation or grading call had returned
FailedStep(p) ==
  /\ p.calls # <<>>
  /\ ~p.calls[Len(p.calls)].out.ok
  /\ \A k \in 1..(Len(p.calls) - 1) : p.calls[k].fn = "search_tool.invoke"

\* C7: a step in which an external call fails leaves every session field that
\* was cached before the step with its previous value.
C7_FailureKeepsCache ==
  [][FailedStep(page')
       => \A k \in DOMAIN session_state :
            k \in DOMAIN session_state' /\ session_state'[k] = session_state[k]]_vars

\* C8: in a render of plan_display in which an operation of one module fails,
\* every module of the plan is still rendered.
C8_ModulesIsolated ==
  (Has("stage", "plan_display") /\ "plan" \in DOMAIN session_state
     /\ page.error = "caught")
    => \A i \in 1..Len(ModulesOf[session_state["plan"]]) :
         ModulesOf[session_state["plan"]][i].well_formed => (i - 1) \in page.rendered

\* a quiz submission has been graded and its score cached in this run
QuizGraded(i) ==
  /\ page.trigger.kind = "submit_quiz"
  /\ page.trigger.module = i
  /\ rerun
  /\ ScoreKey(i) \in DOMAIN session_state

\* C9: every cached score pair (s, t) has 0 <= s <= t = 3, and a submission
\* with no question answered is cached with the score 0.
C9_ScoreCountsMatches ==
  \A i \in ModuleIndex :
    /\ ScoreKey(i) \in DOMAIN session_state
         => /\ 0 <= session_state[ScoreKey(i)][1]
            /\ session_state[ScoreKey(i)][1] <= session_state[ScoreKey(i)][2]
            /\ session_state[ScoreKey(i)][2] = 3
    /\ (QuizGraded(i) /\ \A q \in 1..Len(page.trigger.user_answers) :
                            ~page.trigger.user_answers[q].selected)
         => session_state[ScoreKey(i)][1] = 0

\* the modules with a cached score, whatever their index
GradedModules == {i \in ModuleIndex : ScoreKey(i) \in DOMAIN session_state}

\* the sum of the cached (score, total) pairs of the modules in S
RECURSIVE SumOfScores(_)
SumOfScores(S) ==
  IF S = {} THEN <<0, 0>>
  ELSE LET i == CHOOSE x \in S : TRUE
       IN  <<session_state[ScoreKey(i)][1] + SumOfScores(S \ {i})[1],
             session_state[ScoreKey(i)][2] + SumOfScores(S \ {i})[2]>>

\* C10: the aggregate score a render of plan_display shows is the sum of the
\* (score, total) pairs of every module graded so far, whatever its index;
\* nothing is shown when no module is graded.
C10_AggregateOverGraded ==
  (Has("stage", "plan_display") /\ page.trigger.kind = "rerun")
    => page.metric = IF GradedModules = {} THEN <<>> ELSE SumOfScores(GradedModules)

\* the evaluation text has the line "Knowledge Level: <level>"
HasLevelLine(evaluation, level) ==
  \E k \in 1..Len(evaluation) : evaluation[k] = LevelLine(level)

\* the levels the renders of this page passed to plan generation
LevelsPassed ==
  {page.calls[k].args[2] : k \in CallsTo(page, "generate_learning_plan")}

\* C11: when the evaluation text has a line "Knowledge Level: Advanced", at
\* any position and whatever follows it, the level extracted from it (and
\* passed to plan generation) is exactly "Advanced".
C11_AdvancedAnywhere ==
  ("evaluation" \in DOMAIN session_state
     /\ HasLevelLine(session_state["evaluation"], "Advanced"))
    => \A level \in LevelsPassed : level = <<"Advanced">>

\* the evaluation text has no "Knowledge Level:" line
NoLevelLine(evaluation) ==
  \A k \in 1..Len(evaluation) :
    ~StartsWith(StripLine(evaluation[k]), <<"Knowledge Level", ":">>)

\* C12: when the evaluation text has no "Knowledge Level:" line the extracted
\* level is "Beginner"; and the level passed to plan generation is always one
\* of Beginner, Intermediate, Advanced.
C12_BeginnerByDefault ==
  /\ ("evaluation" \in DOMAIN session_state /\ NoLevelLine(session_state["evaluation"]))
       => \A level \in LevelsPassed : level = <<"Beginner">>
  /\ \A level \in LevelsPassed : \E l \in LevelNames : level = <<l>>

\* the positions of the segments of a plan that have their Description line
Described(shape) == {k \in 1..Len(shape) : shape[k]}

\* the queries of the lookups of a page, in the order of the calls
QueriesLookedUp ==
  LET lookups == SelectSeq(page.calls, LAMBDA c : c.fn = "search_tool.invoke")
  IN  [k \in 1..Len(lookups) |-> lookups[k].args[1]]

\* a render of the cached plan has gone through without an exception
PlanRendered ==
  /\ Has("stage", "plan_display")
  /\ "plan" \in DOMAIN session_state
  /\ ~rerun
  /\ page.error = "none"

\* C13: of a plan text made of segments "Module: / Description: / Search
\* Query:", the parser yields one module for each segment that has its
\* Description line, with that segment's title, description and query, and
\* the render shows them in source order under the segment's index; a segment
\* without its Description line is left out.  Three well-formed segments
\* yield exactly three modules.
C13_ModulesParsed ==
  \A introduction \in Introductions, shape \in Shapes(MaxSegments) :
    Has("plan", PlanOf(introduction, shape))
      => /\ Len(ModulesOf[session_state["plan"]]) = Len(shape)
         /\ \A k \in 1..Len(shape) :
              LET module == ModulesOf[session_state["plan"]][k]
              IN  /\ module.well_formed = shape[k]
                  /\ shape[k] => /\ module.title = <<Key("Title ", k)>>
                                 /\ module.description = <<Key("About ", k)>>
                                 /\ module.query = << <<Key("query ", k)>> >>
         /\ PlanRendered
              => /\ page.rendered = {k - 1 : k \in Described(shape)}
                 /\ Len(QueriesLookedUp) = Cardinality(Described(shape))
                 /\ \A n \in 1..Len(QueriesLookedUp) :
                      QueriesLookedUp[n] = << <<Key("query ", Nth(Described(shape), n))>> >>

\* a plan whose second of three segments lacks its Description line has been
\* rendered: modules 1 and 3 are shown
C13_Witness ==
  /\ PlanRendered
  /\ Has("plan", PlanOf(<<>>, <<TRUE, FALSE, TRUE>>))
  /\ page.rendered = {0, 2}

\* C14: a script run other than the reset leaves the stage as it is or moves
\* it one step forward, topic_submission -> assessment_answering ->
\* plan_display: never backward, never over a stage, and never out of
\* plan_display.
C14_StageAdvances ==
  [][page'.trigger.kind # "reset"
       => \/ session_state'["stage"] = session_state["stage"]
          \/ /\ session_state["stage"] = "topic_submission"
             /\ session_state'["stage"] = "assessment_answering"
          \/ /\ session_state["stage"] = "assessment_answering"
             /\ session_state'["stage"] = "plan_display"]_vars

\* the session went through the three stages and a quiz was generated in
\* plan_display
C14_Witness ==
  /\ Has("stage", "plan_display")
  /\ page.trigger.kind = "quiz_me"
  /\ QuizKey(page.trigger.module) \in DOMAIN session_state

\* key k is written by the step: it appears, or its value changes
Written(k) ==
  /\ k \in DOMAIN session_state'
  /\ k \in DOMAIN session_state => session_state'[k] # session_state[k]

\* C15: for every module index i, a quiz is stored for i only by a run of
\* "Quiz me" on module i whose generation call returned, and a score is stored
\* for i only by a run of "Submit Quiz" on module i, whose quiz is present and
\* whose grading call returned; a module with a score has a quiz.
C15_QuizSubFlow ==
  [][\A i \in ModuleIndex :
       /\ Written(QuizKey(i))
            => /\ page'.trigger.kind = "quiz_me"
               /\ page'.trigger.module = i
               /\ \E k \in CallsTo(page', "generate_module_quiz") : page'.calls[k].out.ok
       /\ Written(ScoreKey(i))
            => /\ page'.trigger.kind = "submit_quiz"
               /\ page'.trigger.module = i
               /\ QuizKey(i) \in DOMAIN session_state
               /\ \E k \in CallsTo(page', "evaluate_quiz_answers") : page'.calls[k].out.ok
       /\ ScoreKey(i) \in DOMAIN session_state' => QuizKey(i) \in DOMAIN session_state']_vars

\* a module went from no quiz to a generated and then a graded quiz
C15_Witness ==
  \E i \in ModuleIndex :
    /\ QuizGraded(i)
    /\ {QuizKey(i), FeedbackKey(i)} \subseteq DOMAIN session_state

\* the fields of the session that C16 names
LifecycleKeys ==
  {"topic", "questions", "evaluation", "plan"}
    \cup {QuizKey(i) : i \in ModuleIndex} \cup {ScoreKey(i) : i \in ModuleIndex}

\* C16: a script run other than the reset removes none of the topic, the
\* questions, the evaluation, the plan and the modules' quiz and score keys
\* from the session, and leaves a topic that is set with its value.
C16_MonotoneSession ==
  [][page'.trigger.kind # "reset"
       => /\ \A k \in LifecycleKeys \cap DOMAIN session_state :
               k \in DOMAIN session_state'
          /\ "topic" \in DOMAIN session_state
               => /\ "topic" \in DOMAIN session_state'
                  /\ session_state'["topic"] = session_state["topic"]]_vars

\* C17: for every module index, a feedback is cached if and only if a score
\* is cached, also after a grading whose text has no parseable score line.
C17_FeedbackIffScore ==
  \A i \in ModuleIndex :
    FeedbackKey(i) \in DOMAIN session_state <=> ScoreKey(i) \in DOMAIN session_state

\* C18: in every state, also after a failed call or a reset, the fields a
\* stage reads are set: assessment_answering has topic and questions,
\* plan_display has topic, questions and evaluation; and topic_submission has
\* no questions, no evaluation and no plan.
C18_StageFields ==
  /\ Has("stage", "assessment_answering")
       => {"topic", "questions"} \subseteq DOMAIN session_state
  /\ Has("stage", "plan_display")
       => {"topic", "questions", "evaluation"} \subseteq DOMAIN session_state
  /\ Has("stage", "topic_submission")
       => {"questions", "evaluation", "plan"} \cap DOMAIN session_state = {}

\* the evaluation call failed in assessment_answering, whose fields are set
C18_Witness ==
  /\ Has("stage", "assessment_answering")
  /\ page.trigger.kind = "submit_answers"
  /\ page.error = "uncaught"
  /\ {"topic", "questions"} \subseteq DOMAIN session_state

\* the fields that a quiz trigger or submission for module i is to leave alone
FrameOf(i) ==
  {"topic", "questions", "evaluation", "plan"}
    \cup UNION {{QuizKey(j), FeedbackKey(j), ScoreKey(j)} : j \in ModuleIndex \ {i}}

\* C19: a run of "Quiz me" or of "Submit Quiz" for module i leaves the topic,
\* the questions, the evaluation, the plan, and the quiz, feedback and score
\* of every other module as they were: none appears, disappears or changes.
C19_OtherModulesUntouched ==
  [][page'.trigger.kind \in {"quiz_me", "submit_quiz"}
       => \A k \in FrameOf(page'.trigger.module) :
            /\ k \in DOMAIN session_state' <=> k \in DOMAIN session_state
            /\ k \in DOMAIN session_state /\ k \in DOMAIN session_state'
                 => session_state'[k] = session_state[k]]_vars

\* a quiz of one module was graded while another module held a quiz
C19_Witness ==
  \E i, j \in ModuleIndex :
    /\ i # j
    /\ QuizGraded(i)
    /\ QuizKey(j) \in DOMAIN session_state

====
